---------------------------- MODULE Spec2Model ----------------------------
(***************************************************************************)
(* c4/format.hpp: the fixed-buffer engines cat / catsep / format, their    *)
(* inverses uncat / uncatsep / unformat, and the resizing adapters         *)
(* catrs / catseprs / formatrs.                                            *)
(*                                                                         *)
(* A character is a one-character string; a text is a sequence of          *)
(* characters.  A mutable view (substr) is a record [off, len] into the    *)
(* caller's memory; the memory is the function from the offsets written    *)
(* during the call to the character written there, so a write outside the  *)
(* view is visible.  A read-only view (csubstr) is the text it spans.      *)
(***************************************************************************)
EXTENDS Integers, Sequences, FiniteSets, TLC

\* ------------------------------------------------------------- bounds
\* longest argument list of a call
MaxArgs == 3
\* longest caller buffer
MaxBuf == 6
\* longest input text handed to a parse engine
MaxInp == 3
\* longest initial content of a container
MaxCont == 2
\* the largest alignment a raw wrapper is constructed with
MaxAlign == 8
\* the largest number of bytes a raw wrapper covers
MaxRaw == 2

\* ------------------------------------------------------------- values
\* csubstr::npos is size_t(-1); no arithmetic is ever done on it
npos == -1

Min(a, b) == IF a < b THEN a ELSE b

IntVal(n) == [k |-> "int", n |-> n]
ChrVal(c) == [k |-> "chr", c |-> c]
StrVal(s) == [k |-> "str", s |-> s]

\* the values a caller passes to the serialize engines
Values ==
    {IntVal(1), IntVal(12), ChrVal("a"), ChrVal(","),
     StrVal(<<"a", "b">>), StrVal(<<"{", "}">>)}

\* the separators a caller passes to catsep
Separators == {ChrVal(","), StrVal(<<"a", "b">>)}

\* the format strings a caller passes to format / unformat
Templates ==
    {<<>>, <<"x">>, <<"{", "}">>, <<"x", "{", "}">>, <<"{", "}", "{", "}">>,
     <<"{", "}", "x", "{", "}">>, <<"{", "{", "}", "}">>,
     <<"{", "}", "x", "{", "}", "{", "}">>, <<"}", "{">>}

\* all sequences over S of length at most n
RECURSIVE SeqsUpTo(_, _)
SeqsUpTo(S, n) ==
    IF n = 0 THEN {<<>>}
    ELSE LET shorter == SeqsUpTo(S, n - 1)
         IN  shorter \cup {Append(s, x) : s \in {t \in shorter : Len(t) = n - 1}, x \in S}

Digits == <<"0", "1", "2", "3", "4", "5", "6", "7", "8", "9">>

\* decimal text of a non-negative integer
RECURSIVE itoa(_)
itoa(n) ==
    IF n < 10 THEN <<Digits[n + 1]>>
    ELSE Append(itoa(n \div 10), Digits[(n % 10) + 1])

\* the text form of a value
Text(v) ==
    CASE v.k = "int" -> itoa(v.n)
      [] v.k = "chr" -> <<v.c>>
      [] v.k = "str" -> v.s

\* ------------------------------------------------------------- views
EmptyView == [off |-> 0, len |-> 0]
EmptyMem == [o \in {} |-> ""]

\* a mutant of Advance: the pointer moves on, the length is not reduced
AdvanceKeepLen(buf, num) == [off |-> buf.off + num, len |-> buf.len]

\* buf = buf.len >= num ? buf.sub(num) : substr{}
Advance(buf, num) ==
    IF buf.len >= num
    THEN [off |-> buf.off + num, len |-> buf.len - num]
    ELSE EmptyView

\* single-value write: copies the part of the text that fits the view and
\* returns the size the whole text needs
to_chars(m, buf, v) ==
    LET t == Text(v)
        n == Min(buf.len, Len(t))
        w == {buf.off + i : i \in 0 .. (n - 1)}
    IN  [mem |-> [o \in (DOMAIN m) \cup w |->
                    IF o \in w THEN t[(o - buf.off) + 1] ELSE m[o]],
         num |-> Len(t)]

\* ------------------------------------------------------------- cat
\* a mutant of cat: stops sizing once the buffer is exhausted
RECURSIVE catStopWhenFull(_, _, _)
catStopWhenFull(m, buf, a) ==
    IF a = <<>> THEN [mem |-> m, num |-> 0]
    ELSE LET r == to_chars(m, buf, Head(a))
         IN  IF buf.len < r.num THEN r
             ELSE LET more == catStopWhenFull(r.mem, Advance(buf, r.num), Tail(a))
                  IN  [mem |-> more.mem, num |-> r.num + more.num]

RECURSIVE cat(_, _, _)
cat(m, buf, a) ==
    IF a = <<>> THEN [mem |-> m, num |-> 0]
    ELSE LET r == to_chars(m, buf, Head(a))
             more == cat(r.mem, Advance(buf, r.num), Tail(a))
         IN  [mem |-> more.mem, num |-> r.num + more.num]

\* ------------------------------------------------------------- catsep
RECURSIVE catsep_more(_, _, _, _)
catsep_more(m, buf, s, a) ==
    IF a = <<>> THEN [mem |-> m, num |-> 0]
    ELSE LET r1 == to_chars(m, buf, s)
             b1 == Advance(buf, r1.num)
             r2 == to_chars(r1.mem, b1, Head(a))
             b2 == Advance(b1, r2.num)
             more == catsep_more(r2.mem, b2, s, Tail(a))
         IN  [mem |-> more.mem, num |-> r1.num + r2.num + more.num]

\* a mutant of catsep: the separator is written before the first argument too
catsepLeadingSep(m, buf, s, a) == catsep_more(m, buf, s, a)

catsep(m, buf, s, a) ==
    LET r == to_chars(m, buf, Head(a))
        more == catsep_more(r.mem, Advance(buf, r.num), s, Tail(a))
    IN  [mem |-> more.mem, num |-> r.num + more.num]

\* ------------------------------------------------------------- format
\* fmt.find("{}"): the offset of the first placeholder, or npos
find(f) ==
    LET hits == {i \in 1 .. (Len(f) - 1) : f[i] = "{" /\ f[i + 1] = "}"}
    IN  IF hits = {} THEN npos
        ELSE (CHOOSE i \in hits : \A j \in hits : i <= j) - 1

\* fmt.sub(first) and fmt.sub(0, num)
subFrom(f, first) == SubSeq(f, first + 1, Len(f))
subFirst(f, num) == SubSeq(f, 1, num)

\* a mutant of format0: the terminator writes nothing, as cat's does
format0Nothing(m, buf, f) == [mem |-> m, num |-> 0]

\* the recursion terminator format(buf, fmt)
format0(m, buf, f) == to_chars(m, buf, StrVal(f))

\* a mutant of format: the scan resumes one character after the placeholder's
\* start instead of two
RECURSIVE formatSkipOne(_, _, _, _)
formatSkipOne(m, buf, f, a) ==
    IF a = <<>> THEN format0(m, buf, f)
    ELSE LET p == find(f)
         IN  IF p = npos THEN format0(m, buf, f)
             ELSE LET r1 == to_chars(m, buf, StrVal(subFirst(f, p)))
                      b1 == Advance(buf, r1.num)
                      r2 == to_chars(r1.mem, b1, Head(a))
                      b2 == Advance(b1, r2.num)
                      more == formatSkipOne(r2.mem, b2, subFrom(f, p + 1), Tail(a))
                  IN  [mem |-> more.mem, num |-> r1.num + r2.num + more.num]

\* a mutant of format: arguments left over when the placeholders run out are
\* written after the template
RECURSIVE formatAppendExtra(_, _, _, _)
formatAppendExtra(m, buf, f, a) ==
    IF a = <<>> THEN format0(m, buf, f)
    ELSE LET p == find(f)
         IN  IF p = npos
             THEN LET r0 == format0(m, buf, f)
                      more == cat(r0.mem, Advance(buf, r0.num), a)
                  IN  [mem |-> more.mem, num |-> r0.num + more.num]
             ELSE LET r1 == to_chars(m, buf, StrVal(subFirst(f, p)))
                      b1 == Advance(buf, r1.num)
                      r2 == to_chars(r1.mem, b1, Head(a))
                      b2 == Advance(b1, r2.num)
                      more == formatAppendExtra(r2.mem, b2, subFrom(f, p + 2), Tail(a))
                  IN  [mem |-> more.mem, num |-> r1.num + r2.num + more.num]

RECURSIVE format(_, _, _, _)
format(m, buf, f, a) ==
    IF a = <<>> THEN format0(m, buf, f)
    ELSE LET p == find(f)
         IN  IF p = npos THEN format0(m, buf, f)
             ELSE LET r1 == to_chars(m, buf, StrVal(subFirst(f, p)))
                      b1 == Advance(buf, r1.num)
                      r2 == to_chars(r1.mem, b1, Head(a))
                      b2 == Advance(b1, r2.num)
                      more == format(r2.mem, b2, subFrom(f, p + 2), Tail(a))
                  IN  [mem |-> more.mem, num |-> r1.num + r2.num + more.num]

\* ------------------------------------------------------------- trimmed views
\* the shapes returning a view of what was written: the engine's result, whether
\* C4_CHECK(sz <= buf.len) passed, and the view {buf.str, sz <= buf.len ? sz : buf.len}

\* a mutant of cat_sub: no check, and the view as long as the size returned
cat_subNoCheck(m, buf, a) ==
    LET r == cat(m, buf, a)
    IN  [mem |-> r.mem, sz |-> r.num, ok |-> TRUE,
         view |-> [off |-> buf.off, len |-> r.num]]

cat_sub(m, buf, a) ==
    LET r == cat(m, buf, a)
    IN  [mem |-> r.mem, sz |-> r.num, ok |-> r.num <= buf.len,
         view |-> [off |-> buf.off,
                   len |-> IF r.num <= buf.len THEN r.num ELSE buf.len]]

catsep_sub(m, buf, s, a) ==
    LET r == catsep(m, buf, s, a)
    IN  [mem |-> r.mem, sz |-> r.num, ok |-> r.num <= buf.len,
         view |-> [off |-> buf.off,
                   len |-> IF r.num <= buf.len THEN r.num ELSE buf.len]]

format_sub(m, buf, f, a) ==
    LET r == format(m, buf, f, a)
    IN  [mem |-> r.mem, sz |-> r.num, ok |-> r.num <= buf.len,
         view |-> [off |-> buf.off,
                   len |-> IF r.num <= buf.len THEN r.num ELSE buf.len]]

\* ------------------------------------------------------------- integral wrappers
HexDigits == Digits \o <<"a", "b", "c", "d", "e", "f">>

\* the text of a non-negative integer in a radix
RECURSIVE utoa_radix(_, _)
utoa_radix(val, radix) ==
    IF val < radix THEN <<HexDigits[val + 1]>>
    ELSE Append(utoa_radix(val \div radix, radix), HexDigits[(val % radix) + 1])

\* the text of a signed integer in a radix
itoa_radix(val, radix) ==
    IF val < 0 THEN <<"-">> \o utoa_radix(0 - val, radix)
    ELSE utoa_radix(val, radix)

\* fmt::integral(val, radix) of a signed or an unsigned type
integral(val, radix, signed) ==
    [k |-> "integral", val |-> val, radix |-> radix, signed |-> signed]

\* to_chars(substr, integral_<T>) in a build path: the bytes written, and what
\* the call returns to its caller: a size_t in the pre-C++17 path, nothing in
\* the C++17 path, where the function is declared void
to_chars_integral(m, buf, v, path) ==
    LET t == IF v.signed THEN itoa_radix(v.val, v.radix)
             ELSE utoa_radix(v.val, v.radix)
        n == Min(buf.len, Len(t))
        w == {buf.off + i : i \in 0 .. (n - 1)}
        written == [o \in (DOMAIN m) \cup w |->
                        IF o \in w THEN t[(o - buf.off) + 1] ELSE m[o]]
    IN  IF path = "cpp17"
        THEN [mem |-> written, type |-> "void", num |-> 0]
        ELSE [mem |-> written, type |-> "size_t", num |-> Len(t)]

\* ------------------------------------------------------------- raw wrappers
\* a & b on size_t
RECURSIVE BitAnd(_, _)
BitAnd(a, b) ==
    IF a = 0 \/ b = 0 THEN 0
    ELSE (a % 2) * (b % 2) + 2 * BitAnd(a \div 2, b \div 2)

\* a mutant of alignment_ok: zero is not excluded
alignment_okZero(alignment) == BitAnd(alignment, alignment - 1) = 0

\* the condition the constructor of raw_wrapper_ asserts
alignment_ok(alignment) ==
    alignment > 0 /\ BitAnd(alignment, alignment - 1) = 0

\* raw_wrapper_(data, alignment): the wrapper, and whether its assertion held
raw_wrapper_(len, alignment) ==
    [w |-> [k |-> "raw", len |-> len, alignment |-> alignment],
     ok |-> alignment_ok(alignment)]

\* bool from_chars(csubstr, raw_wrapper*): the bytes are copied when the
\* buffer holds as many as the wrapper covers
from_chars_raw(buf, r) ==
    IF Len(buf) >= r.len
    THEN [ok |-> TRUE,
          val |-> [k |-> "raw", len |-> r.len, alignment |-> r.alignment,
                   data |-> SubSeq(buf, 1, r.len)]]
    ELSE [ok |-> FALSE, val |-> r]

\* size_t from_chars_first(csubstr, raw_wrapper*): the bool that from_chars
\* returns, converted to size_t
from_chars_first_raw(buf, r) ==
    LET b == from_chars_raw(buf, r)
    IN  [num |-> IF b.ok THEN 1 ELSE 0, val |-> b.val]

\* ------------------------------------------------------------- reading
\* the number of leading decimal digits of a text
RECURSIVE DigitSpan(_)
DigitSpan(t) ==
    IF t = <<>> THEN 0
    ELSE IF \E d \in 1 .. 10 : Digits[d] = Head(t) THEN 1 + DigitSpan(Tail(t))
    ELSE 0

\* the number a decimal text denotes
RECURSIVE atoi(_)
atoi(t) ==
    IF t = <<>> THEN 0
    ELSE atoi(SubSeq(t, 1, Len(t) - 1)) * 10
         + ((CHOOSE d \in 1 .. 10 : Digits[d] = t[Len(t)]) - 1)

\* single-value read of the first value in buf into an argument of v's type:
\* an integer reads the leading digits, a character reads one character; a
\* failed read returns npos and leaves the argument as it was
from_chars_first(buf, v) ==
    CASE v.k = "int" ->
            LET n == DigitSpan(buf)
            IN  IF n = 0 THEN [num |-> npos, val |-> v]
                ELSE [num |-> n, val |-> IntVal(atoi(SubSeq(buf, 1, n)))]
      [] v.k = "chr" ->
            IF buf = <<>> THEN [num |-> npos, val |-> v]
            ELSE [num |-> 1, val |-> ChrVal(buf[1])]
      [] v.k = "raw" -> from_chars_first_raw(buf, v)

\* a mutant of AdvanceRead: the view is not moved past what was read
AdvanceReadStay(buf, num) == buf

\* buf = buf.len >= num ? buf.sub(num) : substr{}   (read-only view)
AdvanceRead(buf, num) ==
    IF Len(buf) >= num THEN SubSeq(buf, num + 1, Len(buf)) ELSE <<>>

\* ------------------------------------------------------------- uncat
\* the parse engines return the size, the arguments after the call, the
\* number of arguments a read was attempted for and whether a read failed
\* a mutant of uncat: after a failed read the remaining arguments are still read
RECURSIVE uncatKeepGoing(_, _)
uncatKeepGoing(buf, a) ==
    IF a = <<>> THEN [num |-> 0, out |-> <<>>, reads |-> 0, failed |-> FALSE]
    ELSE LET r == from_chars_first(buf, Head(a))
             b == IF r.num = npos THEN buf ELSE AdvanceRead(buf, r.num)
             more == uncatKeepGoing(b, Tail(a))
         IN  [num |-> IF r.num = npos \/ more.num = npos THEN npos
                      ELSE r.num + more.num,
              out |-> <<r.val>> \o more.out,
              reads |-> 1 + more.reads,
              failed |-> r.num = npos \/ more.failed]

RECURSIVE uncat(_, _)
uncat(buf, a) ==
    IF a = <<>> THEN [num |-> 0, out |-> <<>>, reads |-> 0, failed |-> FALSE]
    ELSE LET r == from_chars_first(buf, Head(a))
         IN  IF r.num = npos
             THEN [num |-> npos, out |-> <<r.val>> \o Tail(a), reads |-> 1, failed |-> TRUE]
             ELSE LET more == uncat(AdvanceRead(buf, r.num), Tail(a))
                  IN  [num |-> IF more.num = npos THEN npos ELSE r.num + more.num,
                       out |-> <<r.val>> \o more.out,
                       reads |-> 1 + more.reads,
                      failed |-> more.failed]

\* ------------------------------------------------------------- uncatsep
\* a mutant of uncatsep_more: the separator is skipped by its supplied length
\* and never read, so the caller's separator stays as it was
RECURSIVE uncatsep_moreSkipSep(_, _, _)
uncatsep_moreSkipSep(buf, s, a) ==
    IF a = <<>> THEN [num |-> 0, out |-> <<>>, sep |-> s, reads |-> 0, failed |-> FALSE]
    ELSE LET n1 == Len(Text(s))
         IN  IF Len(buf) < n1
             THEN [num |-> npos, out |-> a, sep |-> s, reads |-> 0, failed |-> TRUE]
             ELSE
             LET b1 == AdvanceRead(buf, n1)
                 r2 == from_chars_first(b1, Head(a))
             IN  IF r2.num = npos
                 THEN [num |-> npos, out |-> <<r2.val>> \o Tail(a),
                       sep |-> s, reads |-> 1, failed |-> TRUE]
                 ELSE
                 LET more == uncatsep_moreSkipSep(AdvanceRead(b1, r2.num), s, Tail(a))
                 IN  [num |-> IF more.num = npos THEN npos
                              ELSE n1 + r2.num + more.num,
                      out |-> <<r2.val>> \o more.out,
                      sep |-> s,
                      reads |-> 1 + more.reads,
                      failed |-> more.failed]

RECURSIVE uncatsep_more(_, _, _)
uncatsep_more(buf, s, a) ==
    IF a = <<>> THEN [num |-> 0, out |-> <<>>, sep |-> s, reads |-> 0, failed |-> FALSE]
    ELSE LET r1 == from_chars_first(buf, s)
         IN  IF r1.num = npos
             THEN [num |-> npos, out |-> a, sep |-> r1.val, reads |-> 0, failed |-> TRUE]
             ELSE
             LET b1 == AdvanceRead(buf, r1.num)
                 r2 == from_chars_first(b1, Head(a))
             IN  IF r2.num = npos
                 THEN [num |-> npos, out |-> <<r2.val>> \o Tail(a),
                       sep |-> r1.val, reads |-> 1, failed |-> TRUE]
                 ELSE
                 LET b2 == AdvanceRead(b1, r2.num)
                     more == uncatsep_more(b2, r1.val, Tail(a))
                 IN  [num |-> IF more.num = npos THEN npos
                              ELSE r1.num + r2.num + more.num,
                      out |-> <<r2.val>> \o more.out,
                      sep |-> more.sep,
                      reads |-> 1 + more.reads,
                      failed |-> more.failed]

uncatsep(buf, s, a) ==
    LET r == from_chars_first(buf, Head(a))
    IN  IF r.num = npos
        THEN [num |-> npos, out |-> <<r.val>> \o Tail(a), sep |-> s, reads |-> 1, failed |-> TRUE]
        ELSE LET more == uncatsep_more(AdvanceRead(buf, r.num), s, Tail(a))
             IN  [num |-> IF more.num = npos THEN npos ELSE r.num + more.num,
                  out |-> <<r.val>> \o more.out,
                  sep |-> more.sep,
                  reads |-> 1 + more.reads,
                      failed |-> more.failed]

\* ------------------------------------------------------------- unformat
RECURSIVE unformat(_, _, _)
unformat(buf, f, a) ==
    IF a = <<>> THEN [num |-> 0, out |-> <<>>, reads |-> 0, failed |-> FALSE]
    ELSE LET p == find(f)
         IN  IF p = npos THEN [num |-> 0, out |-> a, reads |-> 0, failed |-> FALSE]
             ELSE
             LET b1 == AdvanceRead(buf, p)
                 r == from_chars_first(b1, Head(a))
             IN  IF r.num = npos
                 THEN [num |-> npos, out |-> <<r.val>> \o Tail(a), reads |-> 1, failed |-> TRUE]
                 ELSE
                 LET b2 == AdvanceRead(b1, r.num)
                     more == unformat(b2, subFrom(f, p + 2), Tail(a))
                 IN  [num |-> IF more.num = npos THEN npos
                              ELSE p + r.num + more.num,
                      out |-> <<r.val>> \o more.out,
                      reads |-> 1 + more.reads,
                      failed |-> more.failed]

\* ------------------------------------------------------------- containers
\* the character resize() fills new elements with
NUL == "NUL"

\* the container's storage seen as memory
ContMem(c) == [o \in 0 .. (Len(c) - 1) |-> c[o + 1]]

\* the container's content once the engine has written to its storage
Stored(m, c) == [i \in 1 .. Len(c) |-> m[i - 1]]

\* to_substr(*cont)
to_substr(c) == [off |-> 0, len |-> Len(c)]

\* substr::sub(first)
sub(buf, first) == [off |-> buf.off + first, len |-> buf.len - first]

\* cont->resize(n)
resize(c, n) ==
    IF n <= Len(c) THEN SubSeq(c, 1, n)
    ELSE c \o [i \in 1 .. (n - Len(c)) |-> NUL]

\* a default-constructed csubstr: no storage, length 0
NullRegion == [base |-> "null", off |-> 0, len |-> 0]

\* to_csubstr(*cont).range(first, last): a region of the container's storage
range(first, last) == [base |-> "cont", off |-> first, len |-> last - first]

\* one pass of each adapter's retry loop: the container after the resize,
\* the size the engine returned, and whether the loop goes round again
catrs(c, a) ==
    LET buf == to_substr(c)
        r == cat(ContMem(c), buf, a)
    IN  [cont |-> resize(Stored(r.mem, c), r.num), ret |-> r.num,
         again |-> r.num > buf.len]

\* a mutant of catrs_append: the view starts at the container's start, not at pos
catrs_appendFromStart(c, p, a) ==
    LET buf == to_substr(c)
        r == cat(ContMem(c), buf, a)
    IN  [cont |-> resize(Stored(r.mem, c), p + r.num), ret |-> r.num,
         again |-> r.num > buf.len]

catrs_append(c, p, a) ==
    LET buf == sub(to_substr(c), p)
        r == cat(ContMem(c), buf, a)
    IN  [cont |-> resize(Stored(r.mem, c), p + r.num), ret |-> r.num,
         again |-> r.num > buf.len]

catseprs(c, s, a) ==
    LET buf == to_substr(c)
        r == catsep(ContMem(c), buf, s, a)
    IN  [cont |-> resize(Stored(r.mem, c), r.num), ret |-> r.num,
         again |-> r.num > buf.len]

catseprs_append(c, p, s, a) ==
    LET buf == sub(to_substr(c), p)
        r == catsep(ContMem(c), buf, s, a)
    IN  [cont |-> resize(Stored(r.mem, c), p + r.num), ret |-> r.num,
         again |-> r.num > buf.len]

formatrs(c, f, a) ==
    LET buf == to_substr(c)
        r == format(ContMem(c), buf, f, a)
    IN  [cont |-> resize(Stored(r.mem, c), r.num), ret |-> r.num,
         again |-> r.num > buf.len]

formatrs_append(c, p, f, a) ==
    LET buf == sub(to_substr(c), p)
        r == format(ContMem(c), buf, f, a)
    IN  [cont |-> resize(Stored(r.mem, c), p + r.num), ret |-> r.num,
         again |-> r.num > buf.len]

\* ------------------------------------------------------------- state
VARIABLES
    op,     \* the operation called last ("none": no call in progress)
    args,   \* its argument list (for a parse engine: the arguments before the call)
    sep,    \* its separator (before the call)
    fmt,    \* its format string
    L,      \* the length of the caller's buffer
    mem,    \* the bytes written to the caller's memory during the call
    ret,    \* the size returned
    inp,    \* the text handed to a parse engine
    outs,   \* the arguments of a parse engine after the call
    sepOut, \* the separator of uncatsep after the call
    reads,  \* the number of arguments a read was attempted for
    failed, \* whether a single-value read of the call returned npos
    cont0,  \* the container as it was when the adapter was called
    cont,   \* the container
    pos,    \* the adapter's pos (0 in the overwrite shape)
    pc,     \* the adapter's place: "idle", "retry" (at the label) or "done"
    passes, \* the passes of the retry loop made so far
    region, \* the region an append call returned
    err,    \* the error raised during the call ("none": no error)
    live,   \* whether the call came back to its caller
    build   \* the build path the call was compiled in ("any": it does not matter)

vars == <<op, args, sep, fmt, L, mem, ret, inp, outs, sepOut, reads, failed,
          cont0, cont, pos, pc, passes, region, err, live, build>>

NoVal == [k |-> "none"]

\* argument lists of the serialize engines
ArgLists == SeqsUpTo(Values, MaxArgs)

\* argument lists of the adapters
RsValues == {IntVal(12), ChrVal("a"), StrVal(<<"{", "}">>)}
RsArgLists == SeqsUpTo(RsValues, MaxArgs)

\* initial containers
Containers == SeqsUpTo({"x", "y"}, MaxCont)

\* input texts and output arguments of the parse engines
InChars == {"1", "2", "a", ","}
Inputs == SeqsUpTo(InChars, MaxInp)
Targets == {IntVal(7), ChrVal("z")}
OutLists == SeqsUpTo(Targets, MaxArgs)

\* the output argument a caller declares to read a value of v's type back
TargetOf(v) == IF v.k = "int" THEN IntVal(7) ELSE ChrVal("z")

SerIdle == L' = 0 /\ mem' = EmptyMem
ParseIdle ==
    /\ inp' = <<>>
    /\ outs' = <<>>
    /\ sepOut' = NoVal
    /\ reads' = 0
    /\ failed' = FALSE
NoError ==
    /\ err' = "none"
    /\ live' = TRUE
    /\ build' = "any"
RsIdle ==
    /\ cont0' = <<>>
    /\ cont' = <<>>
    /\ pos' = 0
    /\ pc' = "idle"
    /\ passes' = 0
    /\ region' = NullRegion

Init ==
    /\ op = "none"
    /\ args = <<>>
    /\ sep = NoVal
    /\ fmt = <<>>
    /\ L = 0
    /\ mem = EmptyMem
    /\ ret = 0
    /\ inp = <<>>
    /\ outs = <<>>
    /\ sepOut = NoVal
    /\ reads = 0
    /\ failed = FALSE
    /\ cont0 = <<>>
    /\ cont = <<>>
    /\ pos = 0
    /\ pc = "idle"
    /\ passes = 0
    /\ region = NullRegion
    /\ err = "none"
    /\ live = TRUE
    /\ build = "any"

\* ------------------------------------------------------------- serialize
Cat ==
    /\ op = "none"
    /\ \E a \in ArgLists, len \in 0 .. MaxBuf :
        LET r == cat(EmptyMem, [off |-> 0, len |-> len], a)
        IN  /\ op' = "cat"
            /\ args' = a
            /\ sep' = NoVal
            /\ fmt' = <<>>
            /\ L' = len
            /\ mem' = r.mem
            /\ ret' = r.num
    /\ ParseIdle
    /\ RsIdle
    /\ NoError

Catsep ==
    /\ op = "none"
    /\ \E s \in Separators, a \in ArgLists \ {<<>>}, len \in 0 .. MaxBuf :
        LET r == catsep(EmptyMem, [off |-> 0, len |-> len], s, a)
        IN  /\ op' = "catsep"
            /\ args' = a
            /\ sep' = s
            /\ fmt' = <<>>
            /\ L' = len
            /\ mem' = r.mem
            /\ ret' = r.num
    /\ ParseIdle
    /\ RsIdle
    /\ NoError

Format ==
    /\ op = "none"
    /\ \E f \in Templates, a \in ArgLists, len \in 0 .. MaxBuf :
        LET r == format(EmptyMem, [off |-> 0, len |-> len], f, a)
        IN  /\ op' = "format"
            /\ args' = a
            /\ sep' = NoVal
            /\ fmt' = f
            /\ L' = len
            /\ mem' = r.mem
            /\ ret' = r.num
    /\ ParseIdle
    /\ RsIdle
    /\ NoError

\* ------------------------------------------------------------- trimmed views
\* a call of a shape returning a view: r is the shape's result; when the check
\* fails the error handler is called and either ends the call (abort, throw)
\* or returns, and then the truncated view is returned. ret is the length of
\* the view returned.
SubCall(name, a, s, f, len, r) ==
    /\ op' = name
    /\ args' = a
    /\ sep' = s
    /\ fmt' = f
    /\ L' = len
    /\ mem' = r.mem
    /\ err' = IF r.ok THEN "none" ELSE "check"
    /\ \E back \in BOOLEAN :
        /\ live' = (r.ok \/ back)
        /\ ret' = IF r.ok \/ back THEN r.view.len ELSE 0
    /\ build' = "any"
    /\ ParseIdle
    /\ RsIdle

CatSub ==
    /\ op = "none"
    /\ \E a \in RsArgLists, len \in 0 .. MaxBuf :
        SubCall("cat_sub", a, NoVal, <<>>, len,
                cat_sub(EmptyMem, [off |-> 0, len |-> len], a))

CatsepSub ==
    /\ op = "none"
    /\ \E s \in Separators, a \in RsArgLists \ {<<>>}, len \in 0 .. MaxBuf :
        SubCall("catsep_sub", a, s, <<>>, len,
                catsep_sub(EmptyMem, [off |-> 0, len |-> len], s, a))

FormatSub ==
    /\ op = "none"
    /\ \E f \in Templates, a \in RsArgLists, len \in 0 .. MaxBuf :
        SubCall("format_sub", a, NoVal, f, len,
                format_sub(EmptyMem, [off |-> 0, len |-> len], f, a))

\* ------------------------------------------------------------- parse
Uncat ==
    /\ op = "none"
    /\ \E t \in Inputs, a \in OutLists :
        LET r == uncat(t, a)
        IN  /\ op' = "uncat"
            /\ args' = a
            /\ inp' = t
            /\ ret' = r.num
            /\ outs' = r.out
            /\ reads' = r.reads
            /\ failed' = r.failed
    /\ sep' = NoVal
    /\ sepOut' = NoVal
    /\ fmt' = <<>>
    /\ SerIdle
    /\ RsIdle
    /\ NoError

\* uncat called on exactly the characters a cat call wrote, with one output
\* argument of each value's type
UncatWritten ==
    /\ op = "cat"
    /\ ret <= L
    /\ \A i \in 1 .. Len(args) : args[i].k \in {"int", "chr"}
    /\ LET t == [i \in 1 .. ret |-> mem[i - 1]]
           r == uncat(t, [i \in 1 .. Len(args) |-> TargetOf(args[i])])
       IN  /\ op' = "uncat_written"
           /\ inp' = t
           /\ ret' = r.num
           /\ outs' = r.out
           /\ reads' = r.reads
           /\ failed' = r.failed
    /\ UNCHANGED <<args, sep, fmt, L, mem, sepOut>>
    /\ RsIdle
    /\ NoError

Uncatsep ==
    /\ op = "none"
    /\ \E t \in Inputs, s \in {ChrVal(","), IntVal(7)}, a \in OutLists \ {<<>>} :
        LET r == uncatsep(t, s, a)
        IN  /\ op' = "uncatsep"
            /\ args' = a
            /\ sep' = s
            /\ inp' = t
            /\ ret' = r.num
            /\ outs' = r.out
            /\ sepOut' = r.sep
            /\ reads' = r.reads
            /\ failed' = r.failed
    /\ fmt' = <<>>
    /\ SerIdle
    /\ RsIdle
    /\ NoError

Unformat ==
    /\ op = "none"
    /\ \E t \in Inputs, f \in Templates, a \in OutLists :
        LET r == unformat(t, f, a)
        IN  /\ op' = "unformat"
            /\ args' = a
            /\ fmt' = f
            /\ inp' = t
            /\ ret' = r.num
            /\ outs' = r.out
            /\ reads' = r.reads
            /\ failed' = r.failed
    /\ sep' = NoVal
    /\ sepOut' = NoVal
    /\ SerIdle
    /\ RsIdle
    /\ NoError

\* ------------------------------------------------------------- raw wrappers
\* fmt::raw(data, alignment): the wrapper is constructed; a failed assertion
\* ends the call before the wrapper exists
Raw ==
    /\ op = "none"
    /\ \E len \in 1 .. MaxRaw, alignment \in 0 .. MaxAlign :
        LET r == raw_wrapper_(len, alignment)
        IN  /\ op' = "raw"
            /\ args' = <<r.w>>
            /\ err' = IF r.ok THEN "none" ELSE "assert"
            /\ live' = r.ok
    /\ sep' = NoVal
    /\ fmt' = <<>>
    /\ ret' = 0
    /\ build' = "any"
    /\ SerIdle
    /\ ParseIdle
    /\ RsIdle

\* uncat reading into the wrapper just constructed, alone or followed by a
\* character
UncatRaw ==
    /\ op = "raw"
    /\ live
    /\ \E t \in Inputs, a \in {<<args[1]>>, <<args[1], ChrVal("z")>>} :
        LET r == uncat(t, a)
        IN  /\ op' = "uncat_raw"
            /\ args' = a
            /\ inp' = t
            /\ ret' = r.num
            /\ outs' = r.out
            /\ reads' = r.reads
            /\ failed' = r.failed
    /\ sep' = NoVal
    /\ sepOut' = NoVal
    /\ fmt' = <<>>
    /\ SerIdle
    /\ RsIdle
    /\ NoError

\* unformat reading into the wrapper just constructed
UnformatRaw ==
    /\ op = "raw"
    /\ live
    /\ \E t \in Inputs, f \in Templates :
        LET r == unformat(t, f, <<args[1]>>)
        IN  /\ op' = "unformat_raw"
            /\ fmt' = f
            /\ inp' = t
            /\ ret' = r.num
            /\ outs' = r.out
            /\ reads' = r.reads
            /\ failed' = r.failed
    /\ sep' = NoVal
    /\ sepOut' = NoVal
    /\ UNCHANGED args
    /\ SerIdle
    /\ RsIdle
    /\ NoError

\* ------------------------------------------------------------- integral wrappers
\* the wrappers a caller passes
Integrals ==
    {integral(val, radix, signed) :
        val \in {0 - 3, 0, 5, 12}, radix \in {2, 10, 16}, signed \in BOOLEAN}
    \ {integral(0 - 3, radix, FALSE) : radix \in {2, 10, 16}}

\* size_t num = to_chars(buf, fmt::integral(val, radix)) in either build
\* path. In the C++17 path the function is declared void and returns a value:
\* the build either rejects the call (it never runs) or runs it and hands no
\* size to the caller.
ToCharsIntegral ==
    /\ op = "none"
    /\ \E v \in Integrals, len \in 0 .. MaxBuf, path \in {"cpp17", "pre17"},
          rejected \in BOOLEAN :
        LET r == to_chars_integral(EmptyMem, [off |-> 0, len |-> len], v, path)
        IN  /\ op' = "to_chars_integral"
            /\ args' = <<v>>
            /\ L' = len
            /\ build' = path
            /\ IF r.type = "size_t"
               THEN /\ mem' = r.mem
                    /\ ret' = r.num
                    /\ err' = "none"
                    /\ live' = TRUE
               ELSE /\ mem' = IF rejected THEN EmptyMem ELSE r.mem
                    /\ ret' = 0
                    /\ err' = IF rejected THEN "ill_formed" ELSE "void"
                    /\ live' = ~rejected
    /\ sep' = NoVal
    /\ fmt' = <<>>
    /\ ParseIdle
    /\ RsIdle

\* ------------------------------------------------------------- adapters
\* entry of an adapter call, up to the retry label
RsCall(name, c, p, s, f, a) ==
    /\ op' = name
    /\ cont0' = c
    /\ cont' = c
    /\ pos' = p
    /\ pc' = "retry"
    /\ passes' = 0
    /\ args' = a
    /\ sep' = s
    /\ fmt' = f
    /\ ret' = 0
    /\ region' = NullRegion
    /\ SerIdle
    /\ ParseIdle
    /\ NoError

\* one pass of the retry loop with result r; reg is the region returned when
\* the loop ends
RsStep(r, reg) ==
    /\ cont' = r.cont
    /\ ret' = r.ret
    /\ passes' = passes + 1
    /\ pc' = IF r.again THEN "retry" ELSE "done"
    /\ region' = IF r.again THEN region ELSE reg
    /\ UNCHANGED <<op, args, sep, fmt, L, mem, inp, outs, sepOut, reads, failed,
                 cont0, pos, err, live, build>>

\* the overloads taking a separator and no arguments return at once
RsReturnAtOnce(name, c, s) ==
    /\ op' = name
    /\ cont0' = c
    /\ cont' = c
    /\ pos' = 0
    /\ pc' = "done"
    /\ passes' = 0
    /\ args' = <<>>
    /\ sep' = s
    /\ fmt' = <<>>
    /\ ret' = 0
    /\ region' = NullRegion
    /\ SerIdle
    /\ ParseIdle
    /\ NoError

CatrsCall ==
    /\ op = "none"
    /\ \E c \in Containers, a \in RsArgLists :
        RsCall("catrs", c, 0, NoVal, <<>>, a)

CatrsPass ==
    /\ op = "catrs" /\ pc = "retry"
    /\ RsStep(catrs(cont, args), NullRegion)

CatrsAppendCall ==
    /\ op = "none"
    /\ \E c \in Containers, a \in RsArgLists :
        RsCall("catrs_append", c, Len(c), NoVal, <<>>, a)

CatrsAppendPass ==
    /\ op = "catrs_append" /\ pc = "retry"
    /\ LET r == catrs_append(cont, pos, args)
       IN  RsStep(r, range(pos, Len(r.cont)))

CatseprsNoArgs ==
    /\ op = "none"
    /\ \E c \in Containers, s \in Separators :
        RsReturnAtOnce("catseprs", c, s)

CatseprsCall ==
    /\ op = "none"
    /\ \E c \in Containers, s \in Separators, a \in RsArgLists \ {<<>>} :
        RsCall("catseprs", c, 0, s, <<>>, a)

CatseprsPass ==
    /\ op = "catseprs" /\ pc = "retry"
    /\ RsStep(catseprs(cont, sep, args), NullRegion)

CatseprsAppendNoArgs ==
    /\ op = "none"
    /\ \E c \in Containers, s \in Separators :
        RsReturnAtOnce("catseprs_append", c, s)

CatseprsAppendCall ==
    /\ op = "none"
    /\ \E c \in Containers, s \in Separators, a \in RsArgLists \ {<<>>} :
        RsCall("catseprs_append", c, Len(c), s, <<>>, a)

CatseprsAppendPass ==
    /\ op = "catseprs_append" /\ pc = "retry"
    /\ LET r == catseprs_append(cont, pos, sep, args)
       IN  RsStep(r, range(pos, Len(r.cont)))

FormatrsCall ==
    /\ op = "none"
    /\ \E c \in Containers, f \in Templates, a \in RsArgLists :
        RsCall("formatrs", c, 0, NoVal, f, a)

FormatrsPass ==
    /\ op = "formatrs" /\ pc = "retry"
    /\ RsStep(formatrs(cont, fmt, args), NullRegion)

FormatrsAppendCall ==
    /\ op = "none"
    /\ \E c \in Containers, f \in Templates, a \in RsArgLists :
        RsCall("formatrs_append", c, Len(c), NoVal, f, a)

FormatrsAppendPass ==
    /\ op = "formatrs_append" /\ pc = "retry"
    /\ LET r == formatrs_append(cont, pos, fmt, args)
       IN  RsStep(r, range(pos, Len(r.cont)))

\* ------------------------------------------------------------- next
\* the call has returned: its views and results are gone
Return ==
    /\ op # "none"
    /\ pc # "retry"
    /\ op' = "none"
    /\ args' = <<>>
    /\ sep' = NoVal
    /\ fmt' = <<>>
    /\ ret' = 0
    /\ SerIdle
    /\ ParseIdle
    /\ RsIdle
    /\ NoError

Next ==
    \/ Cat \/ Catsep \/ Format
    \/ CatSub \/ CatsepSub \/ FormatSub
    \/ Raw \/ UncatRaw \/ UnformatRaw
    \/ ToCharsIntegral
    \/ Uncat \/ UncatWritten \/ Uncatsep \/ Unformat
    \/ CatrsCall \/ CatrsPass \/ CatrsAppendCall \/ CatrsAppendPass
    \/ CatseprsNoArgs \/ CatseprsCall \/ CatseprsPass
    \/ CatseprsAppendNoArgs \/ CatseprsAppendCall \/ CatseprsAppendPass
    \/ FormatrsCall \/ FormatrsPass \/ FormatrsAppendCall \/ FormatrsAppendPass
    \/ Return

Spec == Init /\ [][Next]_vars

\* ------------------------------------------------------------- reference
\* what the claims compare the engines with, built without the engines

\* the sum of the sizes of the texts of a
RECURSIVE SumSizes(_)
SumSizes(a) ==
    IF a = <<>> THEN 0
    ELSE SumSizes(SubSeq(a, 1, Len(a) - 1)) + Len(Text(a[Len(a)]))

\* the texts of a with the text of s between each two, built from the right
RECURSIVE Joined(_, _)
Joined(s, a) ==
    IF Len(a) = 0 THEN <<>>
    ELSE IF Len(a) = 1 THEN Text(a[1])
    ELSE Joined(s, SubSeq(a, 1, Len(a) - 1)) \o Text(s) \o Text(a[Len(a)])

\* the offsets (from 0) of the placeholders of f
Placeholders(f) == {i \in 0 .. (Len(f) - 2) : f[i + 1] = "{" /\ f[i + 2] = "}"}

\* f read one character at a time from index i, the k-th argument next
RECURSIVE Scan(_, _, _, _)
Scan(f, i, a, k) ==
    IF i > Len(f) THEN <<>>
    ELSE IF k <= Len(a) /\ (i - 1) \in Placeholders(f)
         THEN Text(a[k]) \o Scan(f, i + 2, a, k + 1)
         ELSE <<f[i]>> \o Scan(f, i + 1, a, k)

\* f with its k-th placeholder replaced by the text of the k-th argument
Substituted(f, a) == Scan(f, 1, a, 1)

SerializeOps == {"cat", "catsep", "format"}
SubOps == {"cat_sub", "catsep_sub", "format_sub"}
ParseOps == {"uncat", "uncat_written", "uncatsep", "unformat"}
OverwriteOps == {"catrs", "catseprs", "formatrs"}
AppendOps == {"catrs_append", "catseprs_append", "formatrs_append"}

\* the required size of the call in progress, from its arguments alone
Required ==
    CASE op \in {"cat", "cat_sub", "catrs", "catrs_append"} -> SumSizes(args)
      [] op \in {"catsep", "catsep_sub", "catseprs", "catseprs_append"} ->
            IF args = <<>> THEN 0
            ELSE SumSizes(args) + (Len(args) - 1) * Len(Text(sep))
      [] op \in {"format", "format_sub", "formatrs", "formatrs_append"} ->
            Len(Substituted(fmt, args))
      [] OTHER -> 0

\* the full text of the call in progress, from its arguments alone
Expected ==
    CASE op \in {"cat", "cat_sub", "catrs", "catrs_append"} -> Joined(StrVal(<<>>), args)
      [] op \in {"catsep", "catsep_sub", "catseprs", "catseprs_append"} -> Joined(sep, args)
      [] op \in {"format", "format_sub", "formatrs", "formatrs_append"} -> Substituted(fmt, args)
      [] OTHER -> <<>>

\* the characters of the caller's buffer the call reports as written
Written ==
    [i \in 1 .. Min(ret, L) |-> IF (i - 1) \in DOMAIN mem THEN mem[i - 1] ELSE "?"]

\* ------------------------------------------------------------- claims

\* C1: for every argument list and every buffer length L, cat, catsep and
\* format write no byte of the caller's memory at an offset >= L.
C1_NoWritePastBuffer ==
    op \in SerializeOps => \A o \in DOMAIN mem : o >= 0 /\ o < L

\* C1 witness: a call with two or more arguments whose buffer is not empty
\* and is shorter than the text of the first argument.
C1_Witness ==
    /\ op \in SerializeOps
    /\ Len(args) >= 2
    /\ L > 0
    /\ L < Len(Text(args[1]))
    /\ DOMAIN mem # {}

\* C2: for a fixed argument list cat, catsep and format return, for every
\* buffer length L, the sum of the sizes of all pieces written.
C2_SameSizeForEveryLength ==
    op \in SerializeOps => ret = Required

\* C2 witness: a cat call with an empty buffer and a full argument list, so
\* every argument is sized against an empty view.
C2_Witness ==
    /\ op = "cat"
    /\ L = 0
    /\ Len(args) = MaxArgs
    /\ ret > MaxArgs

\* C3 as stated: uncat on exactly the characters cat wrote succeeds and
\* yields every value back, also for arguments written with nothing between
\* them.
C3_RoundTripAlways ==
    op = "uncat_written" => ret = Len(inp) /\ outs = args

\* every argument's read, applied to the text from that argument on,
\* consumes exactly the characters its to_chars wrote
ReadsBackExactly(a) ==
    \A i \in 1 .. Len(a) :
        from_chars_first(Joined(StrVal(<<>>), SubSeq(a, i, Len(a))), TargetOf(a[i])).num
            = Len(Text(a[i]))

\* C3 amended: uncat on exactly the characters cat wrote succeeds and yields
\* every value back when each argument's read, applied to the text from that
\* argument on, consumes exactly the characters written for it.
C3_RoundTripWhenDelimited ==
    (op = "uncat_written" /\ ReadsBackExactly(args)) =>
        ret = Len(inp) /\ outs = args

\* C3 witness: three values, two of them integers, read back after cat.
C3_Witness ==
    /\ op = "uncat_written"
    /\ Len(args) = 3
    /\ args[1] = IntVal(12)
    /\ args[3].k = "int"
    /\ ReadsBackExactly(args)
    /\ outs = args

C5_SeparatorPlacement ==
    op = "catsep" =>
        /\ ret = SumSizes(args) + (Len(args) - 1) * Len(Text(sep))
        /\ (L >= ret => Written = Joined(sep, args))

\* C5 witness: three arguments joined by "," into a buffer that holds them.
C5_Witness ==
    /\ op = "catsep"
    /\ sep = ChrVal(",")
    /\ Len(args) = 3
    /\ ret = 5
    /\ Written = <<"a", ",", "a", ",", "a">>

\* C6: format replaces the k-th placeholder by the text of the k-th argument
\* and copies the literal spans in order; nothing is scanned twice.
C6_PositionalSubstitution ==
    (op = "format" /\ L >= ret) => Written = Substituted(fmt, args)

\* C6 witness: three placeholders, three arguments, the first argument's text
\* being a placeholder itself.
C6_Witness ==
    /\ op = "format"
    /\ Cardinality(Placeholders(fmt)) = 3
    /\ Len(args) = 3
    /\ args[1] = StrVal(<<"{", "}">>)
    /\ L >= ret
    /\ Len(Written) = ret

\* the offset just after the n-th placeholder of f (0 for n = 0)
AfterPlaceholder(f, n) ==
    IF n = 0 THEN 0
    ELSE 2 + CHOOSE p \in Placeholders(f) :
                 Cardinality({q \in Placeholders(f) : q < p}) = n - 1

\* C7: with more placeholders than arguments, the template from just after
\* the last placeholder that got an argument is emitted as it is, "{}"
\* included, and the size counts it.
C7_ExtraPlaceholdersLiteral ==
    (op = "format" /\ Cardinality(Placeholders(fmt)) > Len(args)) =>
        LET rest == SubSeq(fmt, AfterPlaceholder(fmt, Len(args)) + 1, Len(fmt))
        IN  /\ Placeholders(rest) # {}
            /\ ret = SumSizes(args) + (Len(fmt) - 2 * Len(args))
            /\ (L >= ret => SubSeq(Written, (ret - Len(rest)) + 1, ret) = rest)

\* C7 witness: two arguments against three placeholders, the buffer large enough.
C7_Witness ==
    /\ op = "format"
    /\ Cardinality(Placeholders(fmt)) = 3
    /\ Len(args) = 2
    /\ L >= ret

\* C8: with more arguments than placeholders, the bytes written and the size
\* returned are those of the same call with only the first P arguments.
C8_ExtraArgumentsIgnored ==
    (op = "format" /\ Len(args) > Cardinality(Placeholders(fmt))) =>
        LET used == SubSeq(args, 1, Cardinality(Placeholders(fmt)))
            r == format(EmptyMem, [off |-> 0, len |-> L], fmt, used)
        IN  /\ ret = r.num
            /\ mem = r.mem
            /\ ret = Len(Substituted(fmt, used))

\* C8 witness: three arguments against one placeholder, the buffer large enough.
C8_Witness ==
    /\ op = "format"
    /\ Cardinality(Placeholders(fmt)) = 1
    /\ Len(args) = 3
    /\ L >= ret
    /\ ret > 0

\* C9 as stated: when an overwrite call of catrs, catseprs or formatrs
\* returns, whatever the container held and whatever the arguments (catseprs
\* with a separator and no arguments included), the container's size is the
\* required size and its content is the engine's full output.
C9_OverwriteShape ==
    (op \in OverwriteOps /\ pc = "done") =>
        Len(cont) = Required /\ cont = Expected

\* C10: during and after an append call of catrs, catseprs or formatrs the
\* characters the container held before the call stay as they were, pass
\* after pass, and when the call returns the size is the old size plus the
\* required size.
C10_AppendKeepsPrefix ==
    op \in AppendOps =>
        /\ Len(cont) >= Len(cont0)
        /\ SubSeq(cont, 1, Len(cont0)) = cont0
        /\ (pc = "done" => Len(cont) = Len(cont0) + Required)

\* C10 witness: an append to a container that is not empty, ended after a
\* second pass.
C10_Witness ==
    /\ op \in AppendOps
    /\ pc = "done"
    /\ passes = 2
    /\ Len(cont0) = MaxCont
    /\ Len(cont) > Len(cont0)

\* C11 as stated: the region an append call of catrs, catseprs or formatrs
\* returns lies in the container, starts at the container's size before the
\* call, has length R, ends at the container's final size and holds the
\* engine's full output.
C11_AppendedRegion ==
    (op \in AppendOps /\ pc = "done") =>
        /\ region.base = "cont"
        /\ region.off = Len(cont0)
        /\ region.len = Required
        /\ region.off + region.len = Len(cont)
        /\ SubSeq(cont, region.off + 1, region.off + region.len) = Expected

\* C15 as stated: every adapter call (catrs, catseprs, formatrs, overwrite or
\* append) ends after at most two engine passes: exactly one when the viewed
\* region of the container is already at least R long, exactly two otherwise,
\* the second pass seeing a region of length exactly R; never a third.
C15_AtMostTwoPasses ==
    op \in (OverwriteOps \cup AppendOps) =>
        /\ passes <= 2
        /\ (pc = "retry" => passes < 2)
        /\ (pc = "retry" /\ passes = 1 =>
                /\ ret = Required
                /\ Len(cont) - pos = Required)
        /\ (pc = "done" =>
                passes = IF Len(cont0) - pos >= Required THEN 1 ELSE 2)

\* C16 as stated: uncatsep with two or more arguments expects the supplied
\* separator's text between consecutive arguments: a call that does not
\* return npos has read the arguments' texts joined by the text of the
\* separator supplied, and the caller's separator is the same after the call
\* as before it.
C16_SeparatorExpected ==
    (op = "uncatsep" /\ Len(args) >= 2) =>
        /\ sepOut = sep
        /\ (ret # npos => SubSeq(inp, 1, ret) = Joined(sep, outs))

\* the input left after the first argument of uncatsep has been read
AfterFirstRead ==
    LET r == from_chars_first(inp, args[1])
    IN  IF r.num = npos THEN <<>> ELSE AdvanceRead(inp, r.num)

\* C16, amended: uncatsep with two or more arguments reads, between
\* consecutive arguments, a value of the separator's type into the caller's
\* separator. The separator keeps its type; a call with two arguments that
\* does not return npos has consumed the text of the first value, the text of
\* the separator value it read (whatever was supplied) and the text of the
\* second value; the call returns npos, with the separator as supplied, when
\* the first argument is read and no separator value parses after it.
C16_SeparatorIsRead ==
    (op = "uncatsep" /\ Len(args) >= 2) =>
        /\ sepOut.k = sep.k
        /\ (ret # npos => ret <= Len(inp))
        /\ (ret # npos /\ Len(args) = 2 =>
                SubSeq(inp, 1, ret) = Text(outs[1]) \o Text(sepOut) \o Text(outs[2]))
        /\ (/\ from_chars_first(inp, args[1]).num # npos
            /\ from_chars_first(AfterFirstRead, sep).num = npos
            => ret = npos /\ sepOut = sep)

\* C16 witness: the input holds "a" where the separator "," was supplied; the
\* call succeeds and the caller's separator has become the value read.
C16_Witness ==
    /\ op = "uncatsep"
    /\ Len(args) = 2
    /\ sep = ChrVal(",")
    /\ inp = <<"1", "a", "2">>
    /\ ret = 3
    /\ sepOut = ChrVal("a")

\* C12 as stated: in cat, catsep, format and their trimmed-view shapes a
\* buffer shorter than the required size is never an error: the call raises
\* nothing, comes back to its caller, and what it returns is larger than L.
C12_NeverAnError ==
    (op \in (SerializeOps \cup SubOps) /\ L < Required) =>
        /\ err = "none"
        /\ live
        /\ ret > L

\* C12, amended: cat, catsep and format never raise an error and return the
\* required size R, which is larger than L when the buffer is too short. The
\* trimmed-view shapes cat_sub, catsep_sub and format_sub raise the error of
\* their check exactly when L < R, and the view they return is never longer
\* than L: R characters when the buffer suffices, L characters when the
\* error handler returns from a failed check.
C12_ViewShapesCheck ==
    /\ op \in SerializeOps =>
        /\ err = "none"
        /\ live
        /\ ret = Required
        /\ (L < Required => ret > L)
    /\ op \in SubOps =>
        /\ (err = "check" <=> L < Required)
        /\ (err = "none" => live /\ ret = Required)
        /\ (err = "check" /\ live => ret = L)
        /\ ret <= L

\* C12 witness: cat_sub on a buffer that is not empty and too short: the check
\* fails, the handler returns, and the view is the whole buffer.
C12_Witness ==
    /\ op = "cat_sub"
    /\ L > 0
    /\ L < Required
    /\ err = "check"
    /\ live
    /\ ret = L

\* n is 1, 2, 4, 8, ...
PowerOfTwo(n) == \E k \in 0 .. MaxAlign : n = 2 ^ k

\* C13: a raw wrapper constructed with an alignment that is not a power of two
\* (0, 3, 6, ...) is rejected at construction and never reaches a buffer read;
\* every power-of-two alignment is accepted.
C13_AlignmentChecked ==
    /\ op = "raw" =>
        /\ (err = "assert" <=> ~PowerOfTwo(args[1].alignment))
        /\ (live <=> PowerOfTwo(args[1].alignment))
        /\ (err = "none" <=> PowerOfTwo(args[1].alignment))
    /\ op = "uncat_raw" =>
        /\ PowerOfTwo(args[1].alignment)
        /\ err = "none"

\* C13 witness: the construction with alignment 6 has been rejected.
C13_Witness ==
    /\ op = "raw"
    /\ args[1].alignment = 6
    /\ err = "assert"
    /\ ~live

\* the offset of the n-th placeholder of f
NthPlaceholder(f, n) ==
    CHOOSE q \in Placeholders(f) :
        Cardinality({x \in Placeholders(f) : x <= q}) = n

\* the number of input characters a value read back stands for
SizeRead(v) == IF v.k = "raw" THEN v.len ELSE Len(Text(v))

RECURSIVE SumRead(_, _)
SumRead(o, n) == IF n = 0 THEN 0 ELSE SumRead(o, n - 1) + SizeRead(o[n])

\* the offset just past the last character consumed: the literal text before
\* and between the placeholders read, plus what each read consumed
OffsetConsumed ==
    IF reads = 0 THEN 0
    ELSE (NthPlaceholder(fmt, reads) - 2 * (reads - 1)) + SumRead(outs, reads)

\* C14 as stated: when unformat does not return npos, what it returns is the
\* offset in the input just past the last character consumed and is at most
\* the input's length, also when the input is shorter than a literal span of
\* the template; when a read fails (for a raw wrapper: the input left does
\* not hold the wrapper's bytes) it returns npos.
C14_UnformatReturnsConsumed ==
    op \in {"unformat", "unformat_raw"} =>
        /\ (ret # npos => ret = OffsetConsumed /\ ret <= Len(inp))
        /\ (failed => ret = npos)
        /\ (/\ op = "unformat_raw"
            /\ Placeholders(fmt) # {}
            /\ Len(inp) < NthPlaceholder(fmt, 1) + args[1].len
            => ret = npos)

\* C17 as stated: the read of a raw wrapper returns the number of bytes it
\* copied, or npos when it fails, so uncat returns the bytes copied (plus the
\* character read after them) when the input holds them and npos when not.
C17_RawReadConsumedOrNpos ==
    op = "uncat_raw" =>
        LET need == args[1].len + (Len(args) - 1)
        IN  IF Len(inp) >= need
            THEN /\ ret = need
                 /\ outs[1].data = SubSeq(inp, 1, args[1].len)
                 /\ (Len(args) = 2 => outs[2] = ChrVal(inp[need]))
            ELSE ret = npos

\* C18 as stated: in both build paths to_chars on an integral wrapper returns
\* the size of the text of the wrapped value in the wrapped radix, the signed
\* conversion for a signed type and the unsigned one for an unsigned type.
C18_IntegralReturnsSize ==
    op = "to_chars_integral" =>
        /\ live
        /\ err = "none"
        /\ ret = Len(IF args[1].signed
                     THEN itoa_radix(args[1].val, args[1].radix)
                     ELSE utoa_radix(args[1].val, args[1].radix))

=============================================================================
